---- MODULE Spec2Model ----
(***************************************************************************)
(* Service-API message controllers of dify                                 *)
(* (api/controllers/service_api/app/message.py).                           *)
(*                                                                         *)
(* Four request handlers are modelled, each as one action that runs the    *)
(* whole handler: MessageListApi.get, MessageFeedbackApi.post,             *)
(* AppGetFeedbacksApi.get and MessageSuggestedApi.get.  The collaborators  *)
(* that live outside this file (token validation, uuid_value, AppMode and  *)
(* MessageService) are modelled from the written specification.            *)
(*                                                                         *)
(* Query-string integers are tuples of one-character strings, so that the  *)
(* int() conversion done by int_range / type=int is a real parse.          *)
(***************************************************************************)
EXTENDS Integers, Sequences, FiniteSets, TLC

VARIABLES messages, feedbacks, request, response, calls

vars == <<messages, feedbacks, request, response, calls>>

(***************************************************************************)
(* Bounds of the model and constants of the program                        *)
(***************************************************************************)
\* the largest number of messages the one existing conversation may hold
MaxMsgs == 2

\* parser.add_argument("limit", type=int_range(1, 100), default=20)
ListLimitLow == 1
ListLimitHigh == 100
\* parser.add_argument("limit", type=int_range(1, 101), default=20)
FeedbacksLimitLow == 1
FeedbacksLimitHigh == 101
LimitDefault == 20
\* parser.add_argument("page", type=int, default=1)
PageDefault == 1

\* Python's None where a str is otherwise expected
None == "<None>"

(***************************************************************************)
(* Entities owned by other layers                                          *)
(***************************************************************************)
\* AppMode members an application can have
AppModes == {"completion", "workflow", "chat", "advanced-chat", "agent-chat"}

NoApp == [id |-> "", mode |-> "", suggested_questions_after_answer |-> FALSE]

App(id, mode, sqaa) ==
    [id |-> id, mode |-> mode, suggested_questions_after_answer |-> sqaa]

\* the applications a valid token can resolve to
Apps ==
    { App("a1", "chat", TRUE), App("a2", "chat", FALSE),
      App("a3", "agent-chat", TRUE), App("a4", "advanced-chat", TRUE),
      App("a5", "completion", TRUE), App("a6", "workflow", TRUE) }

\* the end users a request can resolve to
EndUsers == {"u1", "u2"}

MsgName == <<"m1", "m2", "m3", "m4", "m5", "m6">>

\* well-formed message ids a client may name; the last one never exists
MsgIds == { MsgName[i] : i \in 1..(MaxMsgs + 1) }

\* "c1" exists, "c2" is well formed but does not exist
ConvIds == {"c1", "c2"}

ExistingConv == "c1"

Message(i) ==
    [id |-> MsgName[i], conversation_id |-> ExistingConv, created_at |-> i,
     app_id |-> "a1"]

(***************************************************************************)
(* Request inputs                                                          *)
(***************************************************************************)
Absent == [present |-> FALSE, text |-> ""]
Text(t) == [present |-> TRUE, text |-> t]
AbsentInt == [present |-> FALSE, text |-> <<>>]
Chars(t) == [present |-> TRUE, text |-> t]

\* query values for conversation_id
ConvArgs == {Absent, Text("not-a-uuid")} \cup { Text(c) : c \in ConvIds }

\* query values for first_id
FirstArgs == {Absent, Text("not-a-uuid")} \cup { Text(m) : m \in MsgIds }

\* query values for limit
LimitArgs ==
    { AbsentInt, Chars(<<"0">>), Chars(<<"1">>), Chars(<<"2">>),
      Chars(<<"0", "3">>), Chars(<<"1", "0", "0">>), Chars(<<"1", "0", "1">>),
      Chars(<<"1", "0", "2">>), Chars(<<"-", "1">>), Chars(<<"1", "x">>) }

\* query values for page
PageArgs == { AbsentInt, Chars(<<"1">>), Chars(<<"2">>), Chars(<<"x">>) }

JsonAbsent == [kind |-> "absent", s |-> "", n |-> 0]
JsonNull == [kind |-> "null", s |-> "", n |-> 0]
JsonStr(s) == [kind |-> "string", s |-> s, n |-> 0]
JsonNum(n) == [kind |-> "number", s |-> "", n |-> n]

\* JSON body values for rating
RatingArgs ==
    { JsonAbsent, JsonNull, JsonStr("like"), JsonStr("dislike"),
      JsonStr("Like"), JsonNum(1) }

\* JSON body values for content
ContentArgs == { JsonAbsent, JsonNull, JsonStr("good answer"), JsonNum(42) }

(***************************************************************************)
(* Python conversions used by the argument parsers                         *)
(***************************************************************************)
DigitChar == <<"0", "1", "2", "3", "4", "5", "6", "7", "8", "9">>

IsDigit(c) == \E i \in 1..10 : DigitChar[i] = c

DigitVal(c) == (CHOOSE i \in 1..10 : DigitChar[i] = c) - 1

RECURSIVE DigitsVal(_)
DigitsVal(t) ==
    IF t = <<>> THEN 0
    ELSE 10 * DigitsVal(SubSeq(t, 1, Len(t) - 1)) + DigitVal(t[Len(t)])

AllDigits(t) == t # <<>> /\ \A i \in 1..Len(t) : IsDigit(t[i])

ValueError(msg) == [ok |-> FALSE, v |-> 0, message |-> msg]
IntOk(v) == [ok |-> TRUE, v |-> v, message |-> ""]

\* int(text): an optional sign followed by decimal digits
int(t) ==
    IF AllDigits(t) THEN IntOk(DigitsVal(t))
    ELSE IF t # <<>> /\ t[1] = "-" /\ AllDigits(Tail(t)) THEN IntOk(0 - DigitsVal(Tail(t)))
    ELSE IF t # <<>> /\ t[1] = "+" /\ AllDigits(Tail(t)) THEN IntOk(DigitsVal(Tail(t)))
    ELSE ValueError("not a valid integer")

RECURSIVE NatToStr(_)
NatToStr(n) ==
    IF n < 10 THEN DigitChar[n + 1]
    ELSE NatToStr(n \div 10) \o DigitChar[(n % 10) + 1]

\* str(value) of a JSON scalar
str(j) ==
    IF j.kind = "string" THEN j.s
    ELSE IF j.n < 0 THEN "-" \o NatToStr(0 - j.n) ELSE NatToStr(j.n)

(***************************************************************************)
(* flask_restful.reqparse: one Argument of a RequestParser                 *)
(***************************************************************************)
ArgOk(v) == [ok |-> TRUE, value |-> v]
ArgError == [ok |-> FALSE, value |-> None]

\* int_range(low, high)(text): int(text), rejected outside [low, high]
int_range(low, high, t) ==
    LET value == int(t)
    IN  IF ~value.ok THEN value
        ELSE IF value.v < low \/ value.v > high
             THEN ValueError("must be within the range")
             ELSE value

\* the format check of a conversation or message id
uuid_value(t) ==
    IF t \in ConvIds \cup MsgIds THEN [ok |-> TRUE, v |-> t, message |-> ""]
    ELSE [ok |-> FALSE, v |-> "", message |-> "is not a valid uuid"]

\* add_argument("conversation_id", required=True, type=uuid_value)
ConversationIdArgument(a) ==
    IF ~a.present THEN ArgError
    ELSE LET c == uuid_value(a.text)
         IN  IF c.ok THEN ArgOk(c.v) ELSE ArgError

\* add_argument("first_id", type=uuid_value)
FirstIdArgument(a) ==
    IF ~a.present THEN ArgOk(None)
    ELSE LET c == uuid_value(a.text)
         IN  IF c.ok THEN ArgOk(c.v) ELSE ArgError

\* variant: the listing limit is checked against the feedback listing's range
ListLimitArgument_upto101(a) ==
    IF ~a.present THEN ArgOk(LimitDefault)
    ELSE LET c == int_range(FeedbacksLimitLow, FeedbacksLimitHigh, a.text)
         IN  IF c.ok THEN ArgOk(c.v) ELSE ArgError

\* add_argument("limit", type=int_range(1, 100), required=False, default=20)
ListLimitArgument(a) ==
    IF ~a.present THEN ArgOk(LimitDefault)
    ELSE LET c == int_range(ListLimitLow, ListLimitHigh, a.text)
         IN  IF c.ok THEN ArgOk(c.v) ELSE ArgError

\* add_argument("limit", type=int_range(1, 101), required=False, default=20)
FeedbacksLimitArgument(a) ==
    IF ~a.present THEN ArgOk(LimitDefault)
    ELSE LET c == int_range(FeedbacksLimitLow, FeedbacksLimitHigh, a.text)
         IN  IF c.ok THEN ArgOk(c.v) ELSE ArgError

\* add_argument("page", type=int, default=1)
PageArgument(a) ==
    IF ~a.present THEN ArgOk(PageDefault)
    ELSE LET c == int(a.text)
         IN  IF c.ok THEN ArgOk(c.v) ELSE ArgError

\* choices=["like", "dislike", None]
RatingChoices == {"like", "dislike", None}

\* add_argument("rating", type=str, choices=[...], location="json")
RatingArgument(j) ==
    IF j.kind = "absent" THEN ArgOk(None)
    ELSE LET value == IF j.kind = "null" THEN None ELSE str(j)
         IN  IF value \in RatingChoices THEN ArgOk(value) ELSE ArgError

\* add_argument("content", type=str, location="json")
ContentArgument(j) ==
    IF j.kind = "absent" \/ j.kind = "null" THEN ArgOk(None) ELSE ArgOk(str(j))

(***************************************************************************)
(* HTTP outcomes of a request                                              *)
(***************************************************************************)
NoBody == [empty |-> TRUE]

HttpError(status, error, message) ==
    [status |-> status, error |-> error, message |-> message, escaped |-> "",
     body |-> NoBody]

Ok(body) ==
    [status |-> 200, error |-> "", message |-> "", escaped |-> "", body |-> body]

Unauthorized == HttpError(401, "Unauthorized", "Access token is invalid")
NotChatAppError == HttpError(400, "NotChatAppError", "not_chat_app")
BadRequest(message) == HttpError(400, "BadRequest", message)
NotFound(message) == HttpError(404, "NotFound", message)
InternalServerError == HttpError(500, "InternalServerError", "")

\* an exception that leaves the handler: the framework answers 500
Unhandled(res) ==
    [status |-> 500, error |-> "InternalServerError", message |-> "",
     escaped |-> res.exc, body |-> NoBody]

ParseFailed == BadRequest("Input payload validation failed")

NoRequest == [handler |-> "none"]
NoResponse == [status |-> 0, error |-> "", message |-> "", escaped |-> "", body |-> NoBody]

(***************************************************************************)
(* MessageService, as the controllers see it                               *)
(***************************************************************************)
Return(v) == [exc |-> "", detail |-> "", value |-> v]
Raise(exc, detail) == [exc |-> exc, detail |-> detail, value |-> <<>>]

\* an unclassified failure of the service layer (storage, model provider)
ServiceFault == Raise("Exception", "connection refused")

MessageExists(id) == \E i \in 1..Len(messages) : messages[i].id = id

MessageById(id) == messages[CHOOSE i \in 1..Len(messages) : messages[i].id = id]

\* the last n elements of s
LastN(s, n) == IF Len(s) <= n THEN s ELSE SubSeq(s, Len(s) - n + 1, Len(s))

\* MessageService.pagination_by_first_id: the page of at most `limit`
\* messages of the conversation older than the first_id cursor
pagination_by_first_id(c, fault) ==
    IF fault THEN ServiceFault
    ELSE IF c.conversation_id # ExistingConv
    THEN Raise("ConversationNotExistsError", "")
    ELSE IF c.first_id # None /\ ~MessageExists(c.first_id)
    THEN Raise("FirstMessageNotExistsError", "")
    ELSE LET in_conv(m) == m.conversation_id = c.conversation_id
             older(m) == c.first_id = None
                         \/ m.created_at < MessageById(c.first_id).created_at
             history == SelectSeq(SelectSeq(messages, in_conv), older)
         IN  Return([data |-> LastN(history, c.limit), limit |-> c.limit,
                     has_more |-> Len(history) > c.limit])

\* MessageService.create_feedback
create_feedback(c, fault) ==
    IF fault THEN ServiceFault
    ELSE IF ~MessageExists(c.message_id) THEN Raise("MessageNotExistsError", "")
    ELSE Return(<<>>)

\* the feedback store after a successful create_feedback
StoreFeedback(c) == [feedbacks EXCEPT ![c.message_id] = c.rating]

\* MessageService.get_all_messages_feedbacks: one page of the stored feedbacks
get_all_messages_feedbacks(c, fault) ==
    IF fault THEN ServiceFault
    ELSE LET rated(m) == feedbacks[m.id] # None
             entry(m) == [message_id |-> m.id, rating |-> feedbacks[m.id]]
             all == SelectSeq(messages, rated)
             offset == (c.page - 1) * c.limit
             page == [i \in 1..Len(all) |-> entry(all[i])]
         IN  Return(IF offset < 0 \/ offset >= Len(all) THEN <<>>
                    ELSE SubSeq(page, offset + 1,
                                IF offset + c.limit < Len(all) THEN offset + c.limit
                                ELSE Len(all)))

\* MessageService.get_suggested_questions_after_answer
get_suggested_questions_after_answer(c, fault) ==
    IF ~MessageExists(c.message_id) THEN Raise("MessageNotExistsError", "")
    ELSE IF ~c.app_model.suggested_questions_after_answer
    THEN Raise("SuggestedQuestionsAfterAnswerDisabledError", "")
    ELSE IF fault THEN ServiceFault
    ELSE Return(<<"q1 about " \o c.message_id, "q2 about " \o c.message_id>>)

(***************************************************************************)
(* The handlers                                                            *)
(***************************************************************************)
\* a handler that ends before the service layer is reached
Done(resp) == [response |-> resp, calls |-> <<>>, feedbacks |-> feedbacks]

\* one invocation of a MessageService operation and what it reported
Invoked(call, res) == call @@ [raised |-> res.exc]

\* variant: the mode gate also lets completion applications through
ChatModes_with_completion == {"chat", "agent-chat", "advanced-chat", "completion"}

\* app_mode not in {AppMode.CHAT, AppMode.AGENT_CHAT, AppMode.ADVANCED_CHAT}
ChatModes == {"chat", "agent-chat", "advanced-chat"}

\* ---- MessageListApi.get ------------------------------------------------
MessageListParser(q) ==
    LET conversation_id == ConversationIdArgument(q.conversation_id)
        first_id == FirstIdArgument(q.first_id)
        limit == ListLimitArgument(q.limit)
    IN  [ok |-> conversation_id.ok /\ first_id.ok /\ limit.ok,
         conversation_id |-> conversation_id.value,
         first_id |-> first_id.value,
         limit |-> limit.value]

\* variant: the first_id cursor is not passed on
MessageListCall_no_first_id(app_model, end_user, args) ==
    [op |-> "pagination_by_first_id", app_model |-> app_model, user |-> end_user,
     conversation_id |-> args.conversation_id, first_id |-> None,
     limit |-> args.limit]

MessageListCall(app_model, end_user, args) ==
    [op |-> "pagination_by_first_id", app_model |-> app_model, user |-> end_user,
     conversation_id |-> args.conversation_id, first_id |-> args.first_id,
     limit |-> args.limit]

\* variant: the except FirstMessageNotExistsError clause is missing
MessageListExcept_no_first(res) ==
    IF res.exc = "ConversationNotExistsError" THEN NotFound("Conversation Not Exists.")
    ELSE Unhandled(res)

\* variant: the except ConversationNotExistsError clause is missing
MessageListExcept_no_conversation(res) ==
    IF res.exc = "FirstMessageNotExistsError" THEN NotFound("First Message Not Exists.")
    ELSE Unhandled(res)

MessageListExcept(res) ==
    IF res.exc = "ConversationNotExistsError" THEN NotFound("Conversation Not Exists.")
    ELSE IF res.exc = "FirstMessageNotExistsError" THEN NotFound("First Message Not Exists.")
    ELSE Unhandled(res)

\* message_fields: the public projection of one message
marshal_message(m) ==
    [id |-> m.id, conversation_id |-> m.conversation_id, created_at |-> m.created_at]

\* marshal_with(message_infinite_scroll_pagination_fields)
marshal_pagination(p) ==
    [limit |-> p.limit, has_more |-> p.has_more,
     data |-> [i \in 1..Len(p.data) |-> marshal_message(p.data[i])]]

MessageListApi_get_handler(req) ==
    IF req.app_model = NoApp THEN Done(Unauthorized)
    ELSE IF req.app_model.mode \notin ChatModes THEN Done(NotChatAppError)
    ELSE LET args == MessageListParser(req.query)
         IN  IF ~args.ok THEN Done(ParseFailed)
             ELSE LET call == MessageListCall(req.app_model, req.end_user, args)
                      res == pagination_by_first_id(call, req.fault)
                  IN  [response |-> IF res.exc = "" THEN Ok(marshal_pagination(res.value))
                                    ELSE MessageListExcept(res),
                       calls |-> <<Invoked(call, res)>>,
                       feedbacks |-> feedbacks]

\* ---- MessageFeedbackApi.post -------------------------------------------
MessageFeedbackParser(j) ==
    LET rating == RatingArgument(j.rating)
        content == ContentArgument(j.content)
    IN  [ok |-> rating.ok /\ content.ok, rating |-> rating.value,
         content |-> content.value]

\* variant: the content keyword is not passed on
MessageFeedbackCall_no_content(app_model, end_user, message_id, args) ==
    [op |-> "create_feedback", app_model |-> app_model, message_id |-> message_id,
     user |-> end_user, rating |-> args.rating, content |-> None]

MessageFeedbackCall(app_model, end_user, message_id, args) ==
    [op |-> "create_feedback", app_model |-> app_model, message_id |-> message_id,
     user |-> end_user, rating |-> args.rating, content |-> args.content]

\* variant: the except MessageNotExistsError clause is missing
MessageFeedbackExcept_uncaught(res) == Unhandled(res)

MessageFeedbackExcept(res) ==
    IF res.exc = "MessageNotExistsError" THEN NotFound("Message Not Exists.")
    ELSE Unhandled(res)

MessageFeedbackApi_post_handler(req) ==
    IF req.app_model = NoApp THEN Done(Unauthorized)
    ELSE LET args == MessageFeedbackParser(req.json)
         IN  IF ~args.ok THEN Done(ParseFailed)
             ELSE LET call == MessageFeedbackCall(req.app_model, req.end_user,
                                                  req.message_id, args)
                      res == create_feedback(call, req.fault)
                  IN  [response |-> IF res.exc = "" THEN Ok([result |-> "success"])
                                    ELSE MessageFeedbackExcept(res),
                       calls |-> <<Invoked(call, res)>>,
                       feedbacks |-> IF res.exc = "" THEN StoreFeedback(call)
                                     ELSE feedbacks]

\* ---- AppGetFeedbacksApi.get --------------------------------------------
AppGetFeedbacksParser(q) ==
    LET page == PageArgument(q.page)
        limit == FeedbacksLimitArgument(q.limit)
    IN  [ok |-> page.ok /\ limit.ok, page |-> page.value, limit |-> limit.value]

AppGetFeedbacksCall(app_model, args) ==
    [op |-> "get_all_messages_feedbacks", app_model |-> app_model,
     page |-> args.page, limit |-> args.limit]

AppGetFeedbacksApi_get_handler(req) ==
    IF req.app_model = NoApp THEN Done(Unauthorized)
    ELSE LET args == AppGetFeedbacksParser(req.query)
         IN  IF ~args.ok THEN Done(ParseFailed)
             ELSE LET call == AppGetFeedbacksCall(req.app_model, args)
                      res == get_all_messages_feedbacks(call, req.fault)
                  IN  [response |-> IF res.exc = "" THEN Ok([data |-> res.value])
                                    ELSE Unhandled(res),
                       calls |-> <<Invoked(call, res)>>,
                       feedbacks |-> feedbacks]

\* ---- MessageSuggestedApi.get -------------------------------------------
MessageSuggestedCall(app_model, end_user, message_id) ==
    [op |-> "get_suggested_questions_after_answer", app_model |-> app_model,
     user |-> end_user, message_id |-> message_id, invoke_from |-> "service-api"]

\* variant: the except SuggestedQuestionsAfterAnswerDisabledError clause is missing
MessageSuggestedExcept_no_disabled(res) ==
    IF res.exc = "MessageNotExistsError" THEN NotFound("Message Not Exists.")
    ELSE InternalServerError

\* variant: the catch-all answers with the text of the exception it caught
MessageSuggestedExcept_detail(res) ==
    IF res.exc = "MessageNotExistsError" THEN NotFound("Message Not Exists.")
    ELSE IF res.exc = "SuggestedQuestionsAfterAnswerDisabledError"
    THEN BadRequest("Suggested Questions Is Disabled.")
    ELSE HttpError(500, "InternalServerError", res.detail)

MessageSuggestedExcept(res) ==
    IF res.exc = "MessageNotExistsError" THEN NotFound("Message Not Exists.")
    ELSE IF res.exc = "SuggestedQuestionsAfterAnswerDisabledError"
    THEN BadRequest("Suggested Questions Is Disabled.")
    ELSE InternalServerError

\* variant: the service is called a second time after an unclassified failure
MessageSuggestedApi_get_handler_retry(req) ==
    IF req.app_model = NoApp THEN Done(Unauthorized)
    ELSE IF req.app_model.mode \notin ChatModes THEN Done(NotChatAppError)
    ELSE LET call == MessageSuggestedCall(req.app_model, req.end_user, req.message_id)
             res == get_suggested_questions_after_answer(call, req.fault)
             again == res.exc = "Exception"
         IN  [response |-> IF res.exc = ""
                           THEN Ok([result |-> "success", data |-> res.value])
                           ELSE MessageSuggestedExcept(res),
              calls |-> IF again THEN <<Invoked(call, res), Invoked(call, res)>>
                        ELSE <<Invoked(call, res)>>,
              feedbacks |-> feedbacks]

MessageSuggestedApi_get_handler(req) ==
    IF req.app_model = NoApp THEN Done(Unauthorized)
    ELSE IF req.app_model.mode \notin ChatModes THEN Done(NotChatAppError)
    ELSE LET call == MessageSuggestedCall(req.app_model, req.end_user, req.message_id)
             res == get_suggested_questions_after_answer(call, req.fault)
         IN  [response |-> IF res.exc = ""
                           THEN Ok([result |-> "success", data |-> res.value])
                           ELSE MessageSuggestedExcept(res),
              calls |-> <<Invoked(call, res)>>,
              feedbacks |-> feedbacks]

(***************************************************************************)
(* The state machine                                                       *)
(***************************************************************************)
\* the application a request's token resolves to; NoApp for a rejected token
Tokens == Apps \cup {NoApp}

Init ==
    /\ messages \in { [i \in 1..n |-> Message(i)] : n \in 0..MaxMsgs }
    /\ feedbacks = [m \in MsgIds |-> None]
    /\ request = NoRequest
    /\ response = NoResponse
    /\ calls = <<>>

Handle(req, out) ==
    /\ request' = req
    /\ response' = out.response
    /\ calls' = out.calls
    /\ feedbacks' = out.feedbacks
    /\ UNCHANGED messages

MessageListApi_get ==
    /\ request = NoRequest
    /\ \E app_model \in Tokens, end_user \in EndUsers, conversation_id \in ConvArgs,
       first_id \in FirstArgs, limit \in LimitArgs, fault \in BOOLEAN :
        LET req == [handler |-> "MessageListApi.get", app_model |-> app_model,
                    end_user |-> end_user,
                    query |-> [conversation_id |-> conversation_id,
                               first_id |-> first_id, limit |-> limit],
                    fault |-> fault]
        IN  Handle(req, MessageListApi_get_handler(req))

MessageFeedbackApi_post ==
    /\ request = NoRequest
    /\ \E app_model \in Tokens, end_user \in EndUsers, message_id \in MsgIds,
       rating \in RatingArgs, content \in ContentArgs, fault \in BOOLEAN :
        LET req == [handler |-> "MessageFeedbackApi.post", app_model |-> app_model,
                    end_user |-> end_user, message_id |-> message_id,
                    json |-> [rating |-> rating, content |-> content],
                    fault |-> fault]
        IN  Handle(req, MessageFeedbackApi_post_handler(req))

AppGetFeedbacksApi_get ==
    /\ request = NoRequest
    /\ \E app_model \in Tokens, page \in PageArgs, limit \in LimitArgs,
       fault \in BOOLEAN :
        LET req == [handler |-> "AppGetFeedbacksApi.get", app_model |-> app_model,
                    query |-> [page |-> page, limit |-> limit], fault |-> fault]
        IN  Handle(req, AppGetFeedbacksApi_get_handler(req))

MessageSuggestedApi_get ==
    /\ request = NoRequest
    /\ \E app_model \in Tokens, end_user \in EndUsers, message_id \in MsgIds,
       fault \in BOOLEAN :
        LET req == [handler |-> "MessageSuggestedApi.get", app_model |-> app_model,
                    end_user |-> end_user, message_id |-> message_id,
                    fault |-> fault]
        IN  Handle(req, MessageSuggestedApi_get_handler(req))

\* the response leaves; nothing of the request is kept for the next one
Respond ==
    /\ request # NoRequest
    /\ request' = NoRequest
    /\ response' = NoResponse
    /\ calls' = <<>>
    /\ UNCHANGED <<messages, feedbacks>>

Next ==
    \/ MessageListApi_get
    \/ MessageFeedbackApi_post
    \/ AppGetFeedbacksApi_get
    \/ MessageSuggestedApi_get
    \/ Respond

Spec == Init /\ [][Next]_vars

(***************************************************************************)
(* Vocabulary of the properties                                            *)
(***************************************************************************)
IsList == request.handler = "MessageListApi.get"
IsFeedback == request.handler = "MessageFeedbackApi.post"
IsAppFeedbacks == request.handler = "AppGetFeedbacksApi.get"
IsSuggested == request.handler = "MessageSuggestedApi.get"

Authorized == request.app_model # NoApp
ChatCapable == request.app_model.mode \in {"chat", "agent-chat", "advanced-chat"}

DomainErrors ==
    { "ConversationNotExistsError", "MessageNotExistsError",
      "FirstMessageNotExistsError", "SuggestedQuestionsAfterAnswerDisabledError" }

\* the integer a limit argument denotes, where it denotes one
LimitOutside(a, lo, hi) ==
    a.present /\ int(a.text).ok /\ (int(a.text).v < lo \/ int(a.text).v > hi)
LimitInside(a, lo, hi) ==
    ~a.present \/ (int(a.text).ok /\ int(a.text).v >= lo /\ int(a.text).v <= hi)
LimitValue(a) == IF a.present THEN int(a.text).v ELSE 20

WellFormedId(a) == a.present /\ a.text \in ConvIds \cup MsgIds

\* everything but the limit lets a listing request through
ListOthersValid ==
    /\ Authorized /\ ChatCapable
    /\ WellFormedId(request.query.conversation_id)
    /\ (request.query.first_id.present => WellFormedId(request.query.first_id))
FeedbacksOthersValid ==
    Authorized /\ (request.query.page.present => int(request.query.page.text).ok)

RatingAccepted(j) ==
    j.kind \in {"absent", "null"} \/ (j.kind = "string" /\ j.s \in {"like", "dislike"})

\* the Python value v is the JSON value j itself (null and absent being None)
SameValue(j, v) ==
    IF j.kind \in {"absent", "null"} THEN v = None
    ELSE IF j.kind = "string" THEN v = j.s
    ELSE FALSE

\* the Python value v is the JSON value j, a number being rendered as text
SameText(j, v) ==
    IF j.kind = "number" THEN v = NatToStr(j.n) ELSE SameValue(j, v)

ConvCount(c) == Cardinality({ i \in 1..Len(messages) : messages[i].conversation_id = c })

OlderCount(c, first) ==
    Cardinality({ i \in 1..Len(messages) :
                    /\ messages[i].conversation_id = c
                    /\ \E k \in 1..Len(messages) :
                          /\ messages[k].id = first
                          /\ messages[i].created_at < messages[k].created_at })

BoundOp ==
    [h \in { "MessageListApi.get", "MessageFeedbackApi.post",
             "AppGetFeedbacksApi.get", "MessageSuggestedApi.get" } |->
        CASE h = "MessageListApi.get" -> "pagination_by_first_id"
          [] h = "MessageFeedbackApi.post" -> "create_feedback"
          [] h = "AppGetFeedbacksApi.get" -> "get_all_messages_feedbacks"
          [] OTHER -> "get_suggested_questions_after_answer"]

\* authentication, the mode precondition and parameter parsing all succeed
Admitted ==
    /\ request # NoRequest
    /\ Authorized
    /\ IsList => ListOthersValid /\ LimitInside(request.query.limit, 1, 100)
    /\ IsFeedback => RatingAccepted(request.json.rating)
    /\ IsAppFeedbacks =>
          FeedbacksOthersValid /\ LimitInside(request.query.limit, 1, 101)
    /\ IsSuggested => ChatCapable

(***************************************************************************)
(* Properties                                                              *)
(***************************************************************************)
\* C1: on the listing and the suggestion endpoint, an application whose mode
\* is none of chat, agent-chat, advanced-chat gets the NotChatAppError
\* outcome whatever the other parameters are, and no MessageService
\* operation is invoked.
C1_NotChatApp ==
    ((IsList \/ IsSuggested) /\ Authorized /\ ~ChatCapable) =>
        (response = NotChatAppError /\ calls = <<>>)

C1_Witness ==
    /\ IsList /\ Authorized /\ request.app_model.mode = "completion"
    /\ request.query.conversation_id = Text("c1")
    /\ request.query.limit = Chars(<<"2">>)
    /\ response.error = "NotChatAppError"

\* C2: a limit outside [1,100] on the listing, or outside [1,101] on the
\* application feedback listing, is rejected by the argument parser and no
\* MessageService operation is invoked; a limit inside the range, and an
\* absent limit as 20, reaches the service with the very same value.
C2_LimitGate ==
    /\ IsList =>
        /\ LimitOutside(request.query.limit, 1, 100) =>
              /\ calls = <<>>
              /\ response.status # 200
              /\ (Authorized /\ ChatCapable) => response = ParseFailed
        /\ (ListOthersValid /\ LimitInside(request.query.limit, 1, 100)) =>
              /\ Len(calls) = 1
              /\ calls[1].op = "pagination_by_first_id"
              /\ calls[1].limit = LimitValue(request.query.limit)
    /\ IsAppFeedbacks =>
        /\ LimitOutside(request.query.limit, 1, 101) =>
              /\ calls = <<>>
              /\ response.status # 200
              /\ Authorized => response = ParseFailed
        /\ (FeedbacksOthersValid /\ LimitInside(request.query.limit, 1, 101)) =>
              /\ Len(calls) = 1
              /\ calls[1].op = "get_all_messages_feedbacks"
              /\ calls[1].limit = LimitValue(request.query.limit)

C2_Witness ==
    /\ IsList /\ ListOthersValid
    /\ request.query.limit = Chars(<<"1", "0", "1">>)
    /\ response = ParseFailed
    /\ calls = <<>>

\* C3: when create_feedback reports MessageNotExistsError, the feedback
\* endpoint answers 404 Not Found: not a 500 and not {result: "success"}.
C3_FeedbackNotFound ==
    (IsFeedback /\ Len(calls) >= 1 /\ calls[1].raised = "MessageNotExistsError") =>
        /\ response = NotFound("Message Not Exists.")
        /\ response.status = 404
        /\ response.escaped = ""
        /\ response.body # [result |-> "success"]

C3_Witness ==
    /\ IsFeedback /\ Len(calls) = 1
    /\ calls[1].raised = "MessageNotExistsError"
    /\ response.status = 404

\* C4: when the suggestion service raises
\* SuggestedQuestionsAfterAnswerDisabledError, the suggestion endpoint
\* answers 400 Bad Request, returns no questions, and does not take the
\* catch-all branch.
C4_SuggestedDisabled ==
    (IsSuggested /\ Len(calls) >= 1
        /\ calls[1].raised = "SuggestedQuestionsAfterAnswerDisabledError") =>
        /\ response.status = 400
        /\ response.error = "BadRequest"
        /\ response.body = NoBody

C4_Witness ==
    /\ IsSuggested /\ ChatCapable
    /\ ~request.app_model.suggested_questions_after_answer
    /\ Len(calls) = 1
    /\ calls[1].raised = "SuggestedQuestionsAfterAnswerDisabledError"
    /\ response.status = 400

\* C5: on the suggestion endpoint the service call's result decides the
\* outcome: MessageNotExistsError gives 404, the disabled error gives 400,
\* any other exception gives a 500 that carries nothing of the exception,
\* only a normal return gives {result: "success", data: questions}, and no
\* exception leaves the handler unmapped.
C5_SuggestedMapping ==
    (IsSuggested /\ Len(calls) >= 1) =>
        /\ response.escaped = ""
        /\ calls[1].raised = "MessageNotExistsError" => response.status = 404
        /\ calls[1].raised = "SuggestedQuestionsAfterAnswerDisabledError" =>
              response.status = 400
        /\ calls[1].raised \notin {"", "MessageNotExistsError",
                                   "SuggestedQuestionsAfterAnswerDisabledError"} =>
              /\ response.status = 500
              /\ response.message = ""
              /\ response.body = NoBody
        /\ calls[1].raised = "" <=> response.status = 200
        /\ response.status = 200 =>
              /\ response.body.result = "success"
              /\ Len(response.body.data) > 0

C5_Witness ==
    /\ IsSuggested /\ Len(calls) = 1
    /\ calls[1].raised = "Exception"
    /\ response.status = 500

\* C6: on the listing endpoint ConversationNotExistsError and
\* FirstMessageNotExistsError are answered with 404 Not Found, and the
\* {limit, has_more, data} envelope is returned only when the service call
\* returned normally.
C6_ListNotFound ==
    (IsList /\ Len(calls) >= 1) =>
        /\ calls[1].raised \in {"ConversationNotExistsError",
                                "FirstMessageNotExistsError"} =>
              (response.status = 404 /\ response.error = "NotFound"
               /\ response.escaped = "")
        /\ response.status = 200 => calls[1].raised = ""
        /\ calls[1].raised = "" =>
              /\ response.status = 200
              /\ DOMAIN response.body = {"limit", "has_more", "data"}

C6_Witness ==
    /\ IsList /\ Len(calls) = 1
    /\ calls[1].raised = "FirstMessageNotExistsError"
    /\ response.status = 404

C8_Original ==
    IsFeedback =>
        /\ (Authorized /\ ~RatingAccepted(request.json.rating)) =>
              (calls = <<>> /\ response = ParseFailed)
        /\ (Authorized /\ RatingAccepted(request.json.rating)) => Len(calls) = 1
        /\ Len(calls) >= 1 =>
              /\ SameValue(request.json.rating, calls[1].rating)
              /\ SameValue(request.json.content, calls[1].content)
              /\ calls[1].message_id = request.message_id
              /\ calls[1].user = request.end_user

\* C8: as above, except that a content that is not a string is passed on as
\* its str() text.
C8_FeedbackArguments ==
    IsFeedback =>
        /\ (Authorized /\ ~RatingAccepted(request.json.rating)) =>
              (calls = <<>> /\ response = ParseFailed)
        /\ (Authorized /\ RatingAccepted(request.json.rating)) => Len(calls) = 1
        /\ Len(calls) >= 1 =>
              /\ SameValue(request.json.rating, calls[1].rating)
              /\ SameText(request.json.content, calls[1].content)
              /\ calls[1].message_id = request.message_id
              /\ calls[1].user = request.end_user

C8_Witness ==
    /\ IsFeedback /\ Len(calls) = 1
    /\ request.json.rating = JsonNull
    /\ request.json.content = JsonStr("good answer")
    /\ calls[1].rating = None
    /\ calls[1].content = "good answer"
    /\ response.status = 200

\* C9 as written: when the conversation holds at most `limit` messages, a
\* listing that returns has has_more = false and as many data entries as
\* the conversation has messages.
C9_Original ==
    (IsList /\ Len(calls) = 1 /\ calls[1].raised = ""
        /\ ConvCount(request.query.conversation_id.text)
              <= LimitValue(request.query.limit)) =>
        /\ response.body.has_more = FALSE
        /\ Len(response.body.data) = ConvCount(request.query.conversation_id.text)

\* C9: when the conversation holds at most `limit` messages, a listing that
\* returns has has_more = false; without a first_id cursor data has as many
\* entries as the conversation has messages, and with a cursor as many as
\* there are messages older than the cursor.
C9_ShortConversation ==
    (IsList /\ Len(calls) = 1 /\ calls[1].raised = ""
        /\ ConvCount(request.query.conversation_id.text)
              <= LimitValue(request.query.limit)) =>
        /\ response.body.has_more = FALSE
        /\ Len(response.body.data) =
              IF request.query.first_id.present
              THEN OlderCount(request.query.conversation_id.text,
                              request.query.first_id.text)
              ELSE ConvCount(request.query.conversation_id.text)

C9_Witness ==
    /\ IsList /\ Len(calls) = 1 /\ calls[1].raised = ""
    /\ ~request.query.first_id.present
    /\ request.query.limit = Chars(<<"2">>)
    /\ ConvCount(request.query.conversation_id.text) = 2
    /\ response.body.has_more = FALSE
    /\ Len(response.body.data) = 2

\* C10: a request invokes at most one MessageService operation, exactly one
\* when authentication, the mode precondition and parameter parsing all
\* succeed, and it is the operation bound to the handler; whether and what
\* is invoked is decided by the request alone.
C10_OneServiceCall ==
    request # NoRequest =>
        /\ Len(calls) <= 1
        /\ Len(calls) = 1 <=> Admitted
        /\ Len(calls) = 1 => calls[1].op = BoundOp[request.handler]

C10_Witness ==
    /\ IsSuggested /\ Admitted
    /\ Len(calls) = 1
    /\ calls[1].op = "get_suggested_questions_after_answer"
    /\ calls[1].raised = "Exception"

====
